---- MODULE Spec2Model ----
(***************************************************************************)
(* resumegen: the document pass of resume_processor.py (tree walk, section *)
(* generator call, paragraph rewrite) driven by main.py, with the retrying *)
(* generate() of llm_client.py.                                            *)
(*                                                                         *)
(* Text is a sequence of one-character strings.  Python objects that the   *)
(* code holds by reference (paragraphs, tables, cells) are ids into the    *)
(* document's stores.                                                      *)
(***************************************************************************)
EXTENDS Integers, Sequences, FiniteSets, TLC

VARIABLES
    pc,               \* position of main() / of the unit harness
    template,         \* the template file as loaded (kept to compare against)
    document,         \* the Document object mutated in place, or NoDoc
    requirements,     \* list returned by extract_requirements
    frames,           \* call stack of process_document / _process_table loops
    total_sections,   \* process_document local
    current_section,  \* process_document local
    cur,              \* id of the paragraph bound to the loop variable
    local,            \* original_text, adjusted_text, original_style,
                      \* original_alignment, and the exception e in flight
    llm,              \* generate(): attempts made by the retry decorator, requests in flight
    response,         \* value returned by llm.generate to its caller
    calls,            \* paragraphs optimize_section was invoked for, in order
    status,           \* per paragraph: "none", "ok" (success printed), or which
                      \* error was logged: "generation_failed", "rewrite_failed"
    returned,         \* per paragraph: the text optimize_section returned, or None
    saved,            \* output paths written by document.save, in order
    exit_code         \* process exit status, or None while running

vars == <<pc, template, document, requirements, frames, total_sections,
          current_section, cur, local, llm, response, calls, status, returned,
          saved, exit_code>>

None == "None"
\* no Document object yet
NoDoc ==
    [shape |-> [paragraphs |-> <<>>, tables |-> <<>>, rows |-> <<>>,
                cells |-> <<>>, nparas |-> 0],
     paras |-> <<>>, rels |-> {}]

----------------------------------------------------------------------------
(* Bounds *)

MaxNewLen == 3      \* longest text the backend returns
MaxRuns == 2        \* most runs of a paragraph handed to the rewriter alone
MaxRunLen == 2      \* longest run text of such a paragraph

(* Program constants *)

MaxAttempts == 3    \* stop_after_attempt(3)

----------------------------------------------------------------------------
(* str helpers *)

Whitespace == {" "}

Min(a, b) == IF a < b THEN a ELSE b

RECURSIVE LStrip(_)
LStrip(t) ==
    IF t = <<>> THEN <<>>
    ELSE IF Head(t) \in Whitespace THEN LStrip(Tail(t)) ELSE t

RECURSIVE RStrip(_)
RStrip(t) ==
    IF t = <<>> THEN <<>>
    ELSE IF t[Len(t)] \in Whitespace THEN RStrip(SubSeq(t, 1, Len(t) - 1)) ELSE t

\* str.strip() left out: the text is tested as it is
StripNothing(t) == t

\* str.strip()
Strip(t) == RStrip(LStrip(t))

\* t[a:b] for 0 <= a, 0 <= b
Slice(t, a, b) ==
    IF a >= Min(b, Len(t)) THEN <<>> ELSE SubSeq(t, a + 1, Min(b, Len(t)))

\* t[a:]
SliceFrom(t, a) == Slice(t, a, Len(t))

StartsWith(t, p) == Len(t) >= Len(p) /\ SubSeq(t, 1, Len(p)) = p

EndsWith(t, p) == Len(t) >= Len(p) /\ SubSeq(t, Len(t) - Len(p) + 1, Len(t)) = p

RECURSIVE Join(_)
\* ''.join(texts)
Join(texts) == IF texts = <<>> THEN <<>> ELSE Head(texts) \o Join(Tail(texts))

----------------------------------------------------------------------------
(* Runs and paragraphs *)

\* paragraph.add_run(text): a run with nothing set
NewRun(text) ==
    [text |-> text, style |-> "Default Paragraph Font", bold |-> None,
     italic |-> None, underline |-> None, font_name |-> None,
     font_size |-> None, font_color |-> None, hyperlink |-> None]

\* lines 234-240 and 253-259: the seven style assignments
ApplyStyles(run, info) ==
    [run EXCEPT !.style = info.style, !.bold = info.bold, !.italic = info.italic,
                !.underline = info.underline, !.font_name = info.font_name,
                !.font_size = info.font_size, !.font_color = info.font_color]

\* paragraph.text: the run texts concatenated
ParagraphText(p) == Join([i \in 1..Len(p.runs) |-> p.runs[i].text])

\* _get_hyperlink: the r:id of the run's hlinkClick, or None
GetHyperlink(r) == r.hyperlink

\* _add_hyperlink: run.part.rels[rId] raises KeyError for an id that is not a
\* relationship of the part; otherwise the id is attached to the run.
AddHyperlinkRaises(rels, rId) == rId \notin rels

AddHyperlink(run, rId) == [run EXCEPT !.hyperlink = rId]

\* clearing the whole element: the runs and the paragraph properties go
ClearParagraphAll(p) ==
    [runs |-> <<>>, style |-> "Normal",
     paragraph_format |-> [f \in DOMAIN p.paragraph_format |-> None]]

\* _clear_paragraph: clear_content() drops every run and keeps the properties
ClearParagraph(p) == [p EXCEPT !.runs = <<>>]

\* the slice length rounded up instead of down
NewRunLengthCeil(run_length, original_text_length, new_text_length) ==
    (run_length * new_text_length + original_text_length - 1)
        \div original_text_length

\* int(run_length / original_text_length * new_text_length)
NewRunLength(run_length, original_text_length, new_text_length) ==
    (run_length * new_text_length) \div original_text_length

RECURSIVE BuildRuns(_, _, _, _, _, _)
\* The loop of lines 221-244 from original run i on: the runs appended so far,
\* the read cursor, and whether _add_hyperlink raised (which ends the loop and
\* the method with the runs appended up to then).
BuildRuns(original_runs, new_text, rels, i, pos, acc) ==
    IF i > Len(original_runs) THEN [runs |-> acc, pos |-> pos, raised |-> FALSE]
    ELSE
        LET run_info == original_runs[i]
            original_text_length ==
                Len(Join([k \in 1..Len(original_runs) |-> original_runs[k].text]))
            new_run_length ==
                NewRunLength(Len(run_info.text), original_text_length, Len(new_text))
            new_run_text == Slice(new_text, pos, pos + new_run_length)
            new_run == ApplyStyles(NewRun(new_run_text), run_info)
        IN  IF new_run_text = <<>>
            THEN BuildRuns(original_runs, new_text, rels, i + 1,
                           pos + new_run_length, acc)
            ELSE IF run_info.hyperlink # None
            THEN IF AddHyperlinkRaises(rels, run_info.hyperlink)
                 THEN [runs |-> Append(acc, new_run),
                       pos |-> pos + new_run_length, raised |-> TRUE]
                 ELSE BuildRuns(original_runs, new_text, rels, i + 1,
                                pos + new_run_length,
                                Append(acc, AddHyperlink(new_run, run_info.hyperlink)))
            ELSE BuildRuns(original_runs, new_text, rels, i + 1,
                           pos + new_run_length, Append(acc, new_run))

\* the remainder run added whether or not anything is left of new_text
AddRemainingAlways(original_runs, new_text, built) ==
    Append(built.runs,
           ApplyStyles(NewRun(SliceFrom(new_text, built.pos)),
                       original_runs[Len(original_runs)]))

\* the remainder styled as the first original run instead of the last
AddRemainingFirstStyle(original_runs, new_text, built) ==
    IF built.pos < Len(new_text)
    THEN Append(built.runs,
                ApplyStyles(NewRun(SliceFrom(new_text, built.pos)),
                            original_runs[1]))
    ELSE built.runs

\* lines 246-259: what is left of new_text becomes one more run, styled as the
\* last original run
AddRemaining(original_runs, new_text, built) ==
    IF built.pos < Len(new_text)
    THEN Append(built.runs,
                ApplyStyles(NewRun(SliceFrom(new_text, built.pos)),
                            original_runs[Len(original_runs)]))
    ELSE built.runs

\* _update_paragraph_text(paragraph, new_text): the paragraph afterwards and
\* whether the call raised
UpdateParagraphText(p, new_text, rels) ==
    LET original_runs ==
            [i \in 1..Len(p.runs) |->
                [p.runs[i] EXCEPT !.hyperlink = GetHyperlink(p.runs[i])]]
        cleared == ClearParagraph(p)
        original_full_text ==
            Join([i \in 1..Len(original_runs) |-> original_runs[i].text])
    IN  IF original_full_text = <<>>
        THEN [para |-> cleared, raised |-> FALSE]
        ELSE LET built == BuildRuns(original_runs, new_text, rels, 1, 0, <<>>)
             IN  IF built.raised
                 THEN [para |-> [cleared EXCEPT !.runs = built.runs],
                       raised |-> TRUE]
                 ELSE [para |-> [cleared EXCEPT
                                    !.runs = AddRemaining(original_runs, new_text, built)],
                       raised |-> FALSE]

\* _copy_paragraph_format: twelve fields copied one by one
CopyParagraphFormat(target_format, source_format) ==
    [target_format EXCEPT
        !.left_indent = source_format.left_indent,
        !.right_indent = source_format.right_indent,
        !.space_before = source_format.space_before,
        !.space_after = source_format.space_after,
        !.line_spacing = source_format.line_spacing,
        !.line_spacing_rule = source_format.line_spacing_rule,
        !.alignment = source_format.alignment,
        !.first_line_indent = source_format.first_line_indent,
        !.keep_together = source_format.keep_together,
        !.keep_with_next = source_format.keep_with_next,
        !.page_break_before = source_format.page_break_before,
        !.widow_control = source_format.widow_control]

----------------------------------------------------------------------------
(* Documents: the store of paragraphs and the tree of tables over them *)

\* Attribute values are written as Python prints them ("True", "Pt(12)",
\* None), so that a set value and an unset one can be compared.
StyleBold ==
    [style |-> "Strong", bold |-> "True", italic |-> None, underline |-> None,
     font_name |-> "Arial", font_size |-> "Pt(12)", font_color |-> "FF0000"]

StylePlain ==
    [style |-> "Default Paragraph Font", bold |-> None, italic |-> "False",
     underline |-> None, font_name |-> None, font_size |-> None,
     font_color |-> None]

RunOf(text, styles, rId) ==
    [ApplyStyles(NewRun(text), styles) EXCEPT !.hyperlink = rId]

FormatSet ==
    [left_indent |-> "Pt(10)", right_indent |-> None, space_before |-> "Pt(6)",
     space_after |-> None, line_spacing |-> "2.0",
     line_spacing_rule |-> "MULTIPLE", alignment |-> "CENTER",
     first_line_indent |-> None, keep_together |-> "True",
     keep_with_next |-> None, page_break_before |-> "False",
     widow_control |-> None]

FormatUnset ==
    [left_indent |-> None, right_indent |-> None, space_before |-> None,
     space_after |-> None, line_spacing |-> None, line_spacing_rule |-> None,
     alignment |-> None, first_line_indent |-> None, keep_together |-> None,
     keep_with_next |-> None, page_break_before |-> None, widow_control |-> None]

\* a paragraph without runs
ParaEmpty == [runs |-> <<>>, style |-> "Normal", paragraph_format |-> FormatUnset]

\* a paragraph whose only run is whitespace
ParaSpace ==
    [runs |-> <<RunOf(<<" ">>, StylePlain, None)>>, style |-> "Normal",
     paragraph_format |-> FormatSet]

\* " a" + "b": the first run links through a relationship of the part
ParaLinked ==
    [runs |-> <<RunOf(<<" ", "a">>, StyleBold, "rId1"),
                RunOf(<<"b">>, StylePlain, None)>>,
     style |-> "Heading 1", paragraph_format |-> FormatSet]

\* "ab" + " ": the first run names a relationship the part does not have
ParaStale ==
    [runs |-> <<RunOf(<<"a", "b">>, StylePlain, "rId9"),
                RunOf(<<" ">>, StyleBold, None)>>,
     style |-> "Normal", paragraph_format |-> FormatUnset]

ParaPool == {ParaEmpty, ParaSpace, ParaLinked, ParaStale}

Rels == {"rId1"}

\* one top-level paragraph; a table of one row of two cells, the first cell
\* holding a paragraph and a nested table, the second a paragraph
ShapeNested ==
    [paragraphs |-> <<1>>, tables |-> <<1>>,
     rows |-> << << <<1, 2>> >>, << <<3>> >> >>,
     cells |-> << [paragraphs |-> <<2>>, tables |-> <<2>>],
                  [paragraphs |-> <<4>>, tables |-> <<>>],
                  [paragraphs |-> <<3>>, tables |-> <<>>] >>,
     nparas |-> 4]

\* no top-level paragraph; a table of two rows of one cell; a second table
ShapeRows ==
    [paragraphs |-> <<>>, tables |-> <<1, 2>>,
     rows |-> << << <<1>>, <<2>> >>, << <<3>> >> >>,
     cells |-> << [paragraphs |-> <<3>>, tables |-> <<>>],
                  [paragraphs |-> <<1>>, tables |-> <<>>],
                  [paragraphs |-> <<2>>, tables |-> <<>>] >>,
     nparas |-> 3]

\* two top-level paragraphs and no table
ShapeFlat ==
    [paragraphs |-> <<1, 2>>, tables |-> <<>>, rows |-> <<>>, cells |-> <<>>,
     nparas |-> 2]

Shapes == {ShapeNested, ShapeRows, ShapeFlat}

\* the .docx files load_template may be given
Templates ==
    UNION { { [shape |-> sh, paras |-> ps, rels |-> Rels] :
                ps \in [1..sh.nparas -> ParaPool] } : sh \in Shapes }

----------------------------------------------------------------------------
(* _count_sections *)

RECURSIVE CountParagraphs(_, _)
\* the loops of lines 318-320 and 329-331 over a list of paragraphs
CountParagraphs(doc, ps) ==
    IF ps = <<>> THEN 0
    ELSE (IF Strip(ParagraphText(doc.paras[Head(ps)])) # <<>> THEN 1 ELSE 0)
         + CountParagraphs(doc, Tail(ps))

RECURSIVE CountSectionsInTables(_, _)
RECURSIVE CountSectionsInCells(_, _)
RECURSIVE CountSectionsInRows(_, _)

RECURSIVE CountSectionsInCellsFlat(_, _)
\* the loop over row.cells without lines 332-333: nested tables are not counted
CountSectionsInCellsFlat(doc, cs) ==
    IF cs = <<>> THEN 0
    ELSE CountParagraphs(doc, doc.shape.cells[Head(cs)].paragraphs)
         + CountSectionsInCellsFlat(doc, Tail(cs))

\* the loop over row.cells, lines 328-333
CountSectionsInCells(doc, cs) ==
    IF cs = <<>> THEN 0
    ELSE CountParagraphs(doc, doc.shape.cells[Head(cs)].paragraphs)
         + CountSectionsInTables(doc, doc.shape.cells[Head(cs)].tables)
         + CountSectionsInCells(doc, Tail(cs))

\* the loop over table.rows, line 327
CountSectionsInRows(doc, rs) ==
    IF rs = <<>> THEN 0
    ELSE CountSectionsInCells(doc, Head(rs)) + CountSectionsInRows(doc, Tail(rs))

\* _count_sections_in_table
CountSectionsInTable(doc, t) == CountSectionsInRows(doc, doc.shape.rows[t])

\* the loops over document.tables and cell.tables, lines 321-322 and 332-333
CountSectionsInTables(doc, ts) ==
    IF ts = <<>> THEN 0
    ELSE CountSectionsInTable(doc, Head(ts)) + CountSectionsInTables(doc, Tail(ts))

\* _count_sections
CountSections(doc) ==
    CountParagraphs(doc, doc.shape.paragraphs)
    + CountSectionsInTables(doc, doc.shape.tables)

----------------------------------------------------------------------------
(* The generation backend and what optimize_section makes of its answer *)

Pattern == <<"x", "y", "z", "w", "v", "u">>

TextOfLen(n) == SubSeq(Pattern, 1, n)

\* the code-block marker of three backquotes; "#" stands for the backquote
Fence == <<"#", "#", "#">>

\* a fenced answer: the marker, "text x", the marker
FencedText == Fence \o <<"t", "e", "x", "t", " ", "x">> \o Fence

\* result['choices'][0]['text'] of a well-formed answer
RawTexts == {TextOfLen(n) : n \in 0..MaxNewLen} \cup {<<" ">>, FencedText}

\* answers to the requirements prompt
RequirementTexts == {<<>>, <<"-", " ", "x">>}

\* _clean_response
CleanResponse(resp) ==
    LET r1 == Strip(resp)
        r2 == IF StartsWith(r1, Fence) /\ EndsWith(r1, Fence)
              THEN Strip(Slice(r1, 3, Len(r1) - 3)) ELSE r1
    IN  IF StartsWith(r2, <<"t", "e", "x", "t">>) THEN Strip(SliceFrom(r2, 4)) ELSE r2

\* the cleaned answer returned whatever its length
TruncateNever(adjusted_content, content) == adjusted_content

\* lines 167-171: output_length > input_length * 1.2 cuts to input_length
TruncateToInput(adjusted_content, content) ==
    IF 10 * Len(adjusted_content) > 12 * Len(content)
    THEN Slice(adjusted_content, 0, Len(content))
    ELSE adjusted_content

RECURSIVE LStripChars(_, _)
\* str.lstrip(chars)
LStripChars(t, chars) ==
    IF t = <<>> THEN <<>>
    ELSE IF Head(t) \in chars THEN LStripChars(Tail(t), chars) ELSE t

\* _parse_requirements, for a text of one line
ParseRequirements(text) ==
    LET line == Strip(Strip(text))
    IN  IF line # <<>>
        THEN <<Strip(LStripChars(line, {"0", "1", "2", "3", "4", "5", "6", "7",
                                        "8", "9", ".", "-", " "}))>>
        ELSE <<>>

----------------------------------------------------------------------------
(* main() *)

NoLocal ==
    [original_text |-> None, adjusted_text |-> None, original_style |-> None,
     original_alignment |-> None, error |-> None]

Init ==
    /\ pc = "start"
    /\ template = NoDoc
    /\ document = NoDoc
    /\ requirements = <<>>
    /\ frames = <<>>
    /\ total_sections = 0
    /\ current_section = 0
    /\ cur = 0
    /\ local = NoLocal
    /\ llm = [client |-> None, attempts |-> 0, pending |-> 0]
    /\ response = None
    /\ calls = <<>>
    /\ status = <<>>
    /\ returned = <<>>
    /\ saved = <<>>
    /\ exit_code = None

\* sys.exit(code), directly or from the except clause of main
Exit(code) == pc' = "exit" /\ exit_code' = code

\* lines 22-26
CheckArgs ==
    /\ pc = "start"
    /\ \E argc \in {2, 3} :
          IF argc # 3 THEN Exit(1) ELSE pc' = "select" /\ UNCHANGED exit_code
    /\ UNCHANGED <<template, document, requirements, frames, total_sections,
                   current_section, cur, local, llm, response, calls, status, returned, saved>>

\* lines 32-50; creating the LMStudio client raises when the model cannot be loaded
SelectClient ==
    /\ pc = "select"
    /\ \E selection \in {"1", "2", "3"}, loaded \in BOOLEAN :
          IF selection = "1" /\ loaded
          THEN pc' = "fetch" /\ llm' = [llm EXCEPT !.client = "lmstudio"]
               /\ UNCHANGED exit_code
          ELSE IF selection = "2" /\ loaded
          THEN pc' = "fetch" /\ llm' = [llm EXCEPT !.client = "ollama"]
               /\ UNCHANGED exit_code
          ELSE Exit(1) /\ UNCHANGED llm
    /\ UNCHANGED <<template, document, requirements, frames, total_sections,
                   current_section, cur, local, response, calls, status, returned, saved>>

\* line 57: fetch_and_parse returns or raises
FetchAndParse ==
    /\ pc = "fetch"
    /\ \E ok \in BOOLEAN :
          IF ok THEN pc' = "extract" /\ UNCHANGED exit_code ELSE Exit(1)
    /\ UNCHANGED <<template, document, requirements, frames, total_sections,
                   current_section, cur, local, llm, response, calls, status, returned, saved>>

\* OllamaClient.generate: the body is pass, so the caller gets None and
\* extract_requirements raises on it (line 95)
OllamaGenerate ==
    /\ pc = "extract"
    /\ llm.client = "ollama"
    /\ Exit(1)
    /\ UNCHANGED <<template, document, requirements, frames, total_sections,
                   current_section, cur, local, llm, response, calls, status, returned, saved>>

\* a request posted without waiting for the one in flight
LLMSendWhilePending ==
    /\ pc \in {"extract", "optimize"}
    /\ llm.client = "lmstudio"
    /\ llm.attempts < MaxAttempts
    /\ llm' = [llm EXCEPT !.attempts = @ + 1, !.pending = @ + 1]
    /\ UNCHANGED <<pc, template, document, requirements, frames, total_sections,
                   current_section, cur, local, response, calls, status, returned,
                   saved, exit_code>>

\* LMStudioClient.generate, lines 117-122: one attempt posts one request
LLMSend ==
    /\ pc \in {"extract", "optimize"}
    /\ llm.client = "lmstudio"
    /\ llm.pending = 0
    /\ llm.attempts < MaxAttempts
    /\ llm' = [llm EXCEPT !.attempts = @ + 1, !.pending = @ + 1]
    /\ UNCHANGED <<pc, template, document, requirements, frames, total_sections,
                   current_section, cur, local, response, calls, status, returned, saved,
                   exit_code>>

\* lines 123-126: the answer has choices; its text is returned stripped
LLMReply ==
    /\ pc \in {"extract", "optimize"}
    /\ llm.pending = 1
    /\ \E raw \in (IF pc = "extract" THEN RequirementTexts ELSE RawTexts) :
          response' = Strip(raw)
    /\ llm' = [llm EXCEPT !.attempts = 0, !.pending = 0]
    /\ pc' = IF pc = "extract" THEN "parse" ELSE "clean"
    /\ UNCHANGED <<template, document, requirements, frames, total_sections,
                   current_section, cur, local, calls, status, returned, saved, exit_code>>

\* the third failure is not caught around optimize_section and reaches main
LLMErrorAborts ==
    /\ pc \in {"extract", "optimize"}
    /\ llm.pending = 1
    /\ IF llm.attempts < MaxAttempts
       THEN /\ llm' = [llm EXCEPT !.pending = 0]
            /\ UNCHANGED <<pc, exit_code>>
       ELSE /\ llm' = [llm EXCEPT !.attempts = 0, !.pending = 0]
            /\ Exit(1)
    /\ UNCHANGED <<template, document, requirements, frames, total_sections,
                   current_section, cur, local, response, calls, status, returned,
                   saved>>

\* the decorator giving up one attempt early
LLMErrorGivesUpEarly ==
    /\ pc \in {"extract", "optimize"}
    /\ llm.pending = 1
    /\ IF llm.attempts < MaxAttempts - 1
       THEN /\ llm' = [llm EXCEPT !.pending = 0]
            /\ UNCHANGED <<pc, exit_code, local>>
       ELSE /\ llm' = [llm EXCEPT !.attempts = 0, !.pending = 0]
            /\ IF pc = "extract" THEN Exit(1) /\ UNCHANGED local
               ELSE /\ pc' = "except"
                    /\ local' = [local EXCEPT !.error = "RuntimeError"]
                    /\ UNCHANGED exit_code
    /\ UNCHANGED <<template, document, requirements, frames, total_sections,
                   current_section, cur, response, calls, status, returned, saved>>

\* lines 127-138: the attempt raises; the decorator of line 90 tries again
\* until the third attempt has failed, and then the caller's except clause
\* runs (lines 90-92 of job_processor.py, lines 174-176 of resume_processor.py)
LLMError ==
    /\ pc \in {"extract", "optimize"}
    /\ llm.pending = 1
    /\ IF llm.attempts < MaxAttempts
       THEN /\ llm' = [llm EXCEPT !.pending = 0]
            /\ UNCHANGED <<pc, exit_code, local>>
       ELSE /\ llm' = [llm EXCEPT !.attempts = 0, !.pending = 0]
            /\ IF pc = "extract" THEN Exit(1) /\ UNCHANGED local
               ELSE /\ pc' = "except"
                    /\ local' = [local EXCEPT !.error = "RuntimeError"]
                    /\ UNCHANGED exit_code
    /\ UNCHANGED <<template, document, requirements, frames, total_sections,
                   current_section, cur, response, calls, status, returned, saved>>

\* extract_requirements, lines 86-89
ExtractRequirements ==
    /\ pc = "parse"
    /\ IF ParseRequirements(response) = <<>>
       THEN Exit(1) /\ UNCHANGED requirements
       ELSE /\ requirements' = ParseRequirements(response)
            /\ pc' = "load"
            /\ UNCHANGED exit_code
    /\ UNCHANGED <<template, document, frames, total_sections, current_section,
                   cur, local, llm, response, calls, status, returned, saved>>

\* load_template
LoadTemplate ==
    /\ pc = "load"
    /\ \/ \E t \in Templates :
             /\ template' = t
             /\ document' = t
             /\ status' = [p \in 1..t.shape.nparas |-> "none"]
             /\ returned' = [p \in 1..t.shape.nparas |-> None]
             /\ pc' = "process"
             /\ UNCHANGED exit_code
       \/ Exit(1) /\ UNCHANGED <<template, document, status, returned>>
    /\ UNCHANGED <<requirements, frames, total_sections, current_section, cur,
                   local, llm, response, calls, saved>>

----------------------------------------------------------------------------
(* process_document and _process_table *)

\* a loop nest in progress: process_document itself (kind "doc") or one call
\* of _process_table (kind "table": table id, row and cell index); phase and
\* i say which inner loop runs and the index of its next element
DocFrame ==
    [kind |-> "doc", table |-> 0, row |-> 0, cell |-> 0,
     phase |-> "paragraphs", i |-> 1]

TableFrame(t) ==
    [kind |-> "table", table |-> t, row |-> 1, cell |-> 1,
     phase |-> "paragraphs", i |-> 1]

Top == frames[Len(frames)]

Shape == document.shape

\* the cell the _process_table call on top of the stack is at
TopCell == Shape.cells[Shape.rows[Top.table][Top.row][Top.cell]]

InTable == pc = "walk" /\ frames # <<>> /\ Top.kind = "table"

InCell ==
    /\ InTable
    /\ Top.row <= Len(Shape.rows[Top.table])
    /\ Top.cell <= Len(Shape.rows[Top.table][Top.row])

\* lines 33-57
ProcessDocument ==
    /\ pc = "process"
    /\ total_sections' = CountSections(document)
    /\ current_section' = 0
    /\ frames' = <<DocFrame>>
    /\ pc' = "walk"
    /\ UNCHANGED <<template, document, requirements, cur, local, llm, response,
                   calls, status, returned, saved, exit_code>>

\* lines 61-66 and 102-107: the loop body up to the call of optimize_section
\* for paragraph p, the loop index having advanced
VisitParagraph(p) ==
    LET original_text == Strip(ParagraphText(document.paras[p]))
    IN  /\ frames' = [frames EXCEPT ![Len(frames)].i = @ + 1]
        /\ cur' = p
        /\ IF original_text # <<>>
           THEN /\ current_section' = current_section + 1
                /\ local' = [NoLocal EXCEPT !.original_text = original_text]
                /\ calls' = Append(calls, p)
                /\ pc' = "optimize"
           ELSE UNCHANGED <<current_section, local, calls, pc>>
        /\ UNCHANGED <<template, document, requirements, total_sections, llm,
                       response, status, returned, saved, exit_code>>

\* line 60: the next top-level paragraph
DocParagraph ==
    /\ pc = "walk" /\ Top.kind = "doc" /\ Top.phase = "paragraphs"
    /\ Top.i <= Len(Shape.paragraphs)
    /\ VisitParagraph(Shape.paragraphs[Top.i])

\* line 60 exhausted: on to the loop of line 94
DocParagraphsDone ==
    /\ pc = "walk" /\ Top.kind = "doc" /\ Top.phase = "paragraphs"
    /\ Top.i > Len(Shape.paragraphs)
    /\ frames' = [frames EXCEPT ![Len(frames)].phase = "tables",
                                ![Len(frames)].i = 1]
    /\ UNCHANGED <<pc, template, document, requirements, total_sections,
                   current_section, cur, local, llm, response, calls, status, returned,
                   saved, exit_code>>

\* lines 94-95: _process_table is called for the next top-level table
DocTable ==
    /\ pc = "walk" /\ Top.kind = "doc" /\ Top.phase = "tables"
    /\ Top.i <= Len(Shape.tables)
    /\ frames' = Append([frames EXCEPT ![Len(frames)].i = @ + 1],
                        TableFrame(Shape.tables[Top.i]))
    /\ UNCHANGED <<pc, template, document, requirements, total_sections,
                   current_section, cur, local, llm, response, calls, status, returned,
                   saved, exit_code>>

\* line 94 exhausted: process_document returns to main (line 76)
DocDone ==
    /\ pc = "walk" /\ Top.kind = "doc" /\ Top.phase = "tables"
    /\ Top.i > Len(Shape.tables)
    /\ frames' = <<>>
    /\ pc' = "save"
    /\ UNCHANGED <<template, document, requirements, total_sections,
                   current_section, cur, local, llm, response, calls, status, returned,
                   saved, exit_code>>

\* line 101: the next paragraph of the cell
CellParagraph ==
    /\ InCell /\ Top.phase = "paragraphs"
    /\ Top.i <= Len(TopCell.paragraphs)
    /\ VisitParagraph(TopCell.paragraphs[Top.i])

\* line 101 exhausted: on to the loop of line 134
CellParagraphsDone ==
    /\ InCell /\ Top.phase = "paragraphs"
    /\ Top.i > Len(TopCell.paragraphs)
    /\ frames' = [frames EXCEPT ![Len(frames)].phase = "tables",
                                ![Len(frames)].i = 1]
    /\ UNCHANGED <<pc, template, document, requirements, total_sections,
                   current_section, cur, local, llm, response, calls, status, returned,
                   saved, exit_code>>

\* lines 134-135: _process_table is called for the next nested table
CellTable ==
    /\ InCell /\ Top.phase = "tables"
    /\ Top.i <= Len(TopCell.tables)
    /\ frames' = Append([frames EXCEPT ![Len(frames)].i = @ + 1],
                        TableFrame(TopCell.tables[Top.i]))
    /\ UNCHANGED <<pc, template, document, requirements, total_sections,
                   current_section, cur, local, llm, response, calls, status, returned,
                   saved, exit_code>>

\* line 134 exhausted: the next cell of the row (line 99)
CellDone ==
    /\ InCell /\ Top.phase = "tables"
    /\ Top.i > Len(TopCell.tables)
    /\ frames' = [frames EXCEPT ![Len(frames)].cell = @ + 1,
                                ![Len(frames)].phase = "paragraphs",
                                ![Len(frames)].i = 1]
    /\ UNCHANGED <<pc, template, document, requirements, total_sections,
                   current_section, cur, local, llm, response, calls, status, returned,
                   saved, exit_code>>

\* line 136 indented into the loop of line 98: return after the first row
RowDoneReturns ==
    /\ pc = "walk" /\ frames # <<>> /\ frames[Len(frames)].kind = "table"
    /\ frames[Len(frames)].row <= Len(document.shape.rows[frames[Len(frames)].table])
    /\ frames[Len(frames)].cell >
          Len(document.shape.rows[frames[Len(frames)].table][frames[Len(frames)].row])
    /\ frames' = SubSeq(frames, 1, Len(frames) - 1)
    /\ UNCHANGED <<pc, template, document, requirements, total_sections,
                   current_section, cur, local, llm, response, calls, status,
                   returned, saved, exit_code>>

\* line 99 exhausted: the next row (line 98)
RowDone ==
    /\ InTable
    /\ Top.row <= Len(Shape.rows[Top.table])
    /\ Top.cell > Len(Shape.rows[Top.table][Top.row])
    /\ frames' = [frames EXCEPT ![Len(frames)].row = @ + 1,
                                ![Len(frames)].cell = 1]
    /\ UNCHANGED <<pc, template, document, requirements, total_sections,
                   current_section, cur, local, llm, response, calls, status, returned,
                   saved, exit_code>>

\* line 98 exhausted: _process_table returns current_section (line 136)
TableReturn ==
    /\ InTable
    /\ Top.row > Len(Shape.rows[Top.table])
    /\ frames' = SubSeq(frames, 1, Len(frames) - 1)
    /\ UNCHANGED <<pc, template, document, requirements, total_sections,
                   current_section, cur, local, llm, response, calls, status, returned,
                   saved, exit_code>>

\* optimize_section lines 164-173 returning to lines 66-77 (107-118): the
\* answer is cleaned and cut, and the paragraph's style and alignment are read
OptimizeReturn ==
    /\ pc = "clean"
    /\ local' = [local EXCEPT
          !.adjusted_text =
              TruncateToInput(CleanResponse(response), local.original_text),
          !.original_style = document.paras[cur].style,
          !.original_alignment = document.paras[cur].paragraph_format.alignment]
    /\ returned' = [returned EXCEPT ![cur] = local'.adjusted_text]
    /\ pc' = "update"
    /\ UNCHANGED <<template, document, requirements, frames, total_sections,
                   current_section, cur, llm, response, calls, status, saved,
                   exit_code>>

\* line 80 (121): _update_paragraph_text; what it raises reaches line 88 (129)
UpdateParagraph ==
    /\ pc = "update"
    /\ LET r == UpdateParagraphText(document.paras[cur], local.adjusted_text,
                                    document.rels)
       IN  /\ document' = [document EXCEPT !.paras[cur] = r.para]
           /\ pc' = IF r.raised THEN "except" ELSE "reapply"
           /\ local' = [local EXCEPT !.error = IF r.raised THEN "KeyError" ELSE @]
    /\ UNCHANGED <<template, requirements, frames, total_sections,
                   current_section, cur, llm, response, calls, status, returned,
                   saved, exit_code>>

\* lines 83-87 and 91 (124-128 and 132); original_format is the paragraph's
\* own paragraph_format object, so the copy reads the values of the moment
ReapplyFormat ==
    /\ pc = "reapply"
    /\ LET p1 == [document.paras[cur] EXCEPT
                     !.style = local.original_style,
                     !.paragraph_format.alignment = local.original_alignment]
           original_format == p1.paragraph_format
       IN  document' = [document EXCEPT !.paras[cur] =
               [p1 EXCEPT !.paragraph_format =
                   CopyParagraphFormat(p1.paragraph_format, original_format)]]
    /\ status' = [status EXCEPT ![cur] = "ok"]
    /\ pc' = "walk"
    /\ UNCHANGED <<template, requirements, frames, total_sections,
                   current_section, cur, local, llm, response, calls, returned, saved,
                   exit_code>>

\* lines 88-91 (129-132): the error is logged and the loop goes on
SectionExcept ==
    /\ pc = "except"
    /\ status' = [status EXCEPT ![cur] =
          IF local.error = "KeyError" THEN "rewrite_failed" ELSE "generation_failed"]
    /\ pc' = "walk"
    /\ UNCHANGED <<template, document, requirements, frames, total_sections,
                   current_section, cur, local, llm, response, calls, returned, saved,
                   exit_code>>

\* save_document logging the error without raising it again
SaveDocumentSwallows ==
    /\ pc = "save"
    /\ \/ saved' = Append(saved, "ATS_Resume.docx") /\ Exit(0)
       \/ Exit(0) /\ UNCHANGED saved
    /\ UNCHANGED <<template, document, requirements, frames, total_sections,
                   current_section, cur, local, llm, response, calls, status,
                   returned>>

\* main lines 80-81 with save_document: saved and main returns, or
\* document.save raises and main exits through line 86
SaveDocument ==
    /\ pc = "save"
    /\ \/ saved' = Append(saved, "ATS_Resume.docx") /\ Exit(0)
       \/ Exit(1) /\ UNCHANGED saved
    /\ UNCHANGED <<template, document, requirements, frames, total_sections,
                   current_section, cur, local, llm, response, calls, status, returned>>

Next ==
    \/ CheckArgs \/ SelectClient \/ FetchAndParse \/ OllamaGenerate
    \/ LLMSend \/ LLMReply \/ LLMError \/ ExtractRequirements \/ LoadTemplate
    \/ ProcessDocument \/ DocParagraph \/ DocParagraphsDone \/ DocTable
    \/ DocDone \/ CellParagraph \/ CellParagraphsDone \/ CellTable \/ CellDone
    \/ RowDone \/ TableReturn \/ OptimizeReturn \/ UpdateParagraph
    \/ ReapplyFormat \/ SectionExcept \/ SaveDocument

Spec == Init /\ [][Next]_vars

----------------------------------------------------------------------------
(* _update_paragraph_text on its own: any paragraph, any new text *)

Letters == <<"a", "b", "c", "d", "e", "f">>

\* the runs a paragraph may have: up to MaxRuns runs of up to MaxRunLen
\* characters, each with either set of styles and no, a good or a stale link
UnitRuns ==
    { RunOf(SubSeq(Letters, 1, n), st, h) :
        n \in 0..MaxRunLen, st \in {StyleBold, StylePlain},
        h \in {None, "rId1", "rId9"} }

UnitParagraphs ==
    UNION { { [runs |-> rs, style |-> "Normal", paragraph_format |-> FormatSet] :
                rs \in [1..k -> UnitRuns] } : k \in 0..MaxRuns }

ShapeOne ==
    [paragraphs |-> <<1>>, tables |-> <<>>, rows |-> <<>>, cells |-> <<>>,
     nparas |-> 1]

\* the paragraph of runs "Hello " and "World" and a new text of 15 characters
HelloWorld ==
    [runs |-> << RunOf(<<"H", "e", "l", "l", "o", " ">>, StyleBold, None),
                 RunOf(<<"W", "o", "r", "l", "d">>, StylePlain, None) >>,
     style |-> "Normal", paragraph_format |-> FormatSet]

FifteenChars ==
    <<"H", "i", " ", "t", "h", "e", "r", "e", " ", "f", "r", "i", "e", "n", "d">>

\* the calls made: every small paragraph with every small text, and the
\* paragraph "Hello " + "World" with the text of 15 characters
UnitInputs ==
    { [paragraph |-> p, new_text |-> TextOfLen(n)] :
        p \in UnitParagraphs, n \in 0..MaxNewLen }
    \cup { [paragraph |-> HelloWorld, new_text |-> FifteenChars] }

InitUpdate ==
    /\ pc = "unit"
    /\ \E in \in UnitInputs :
          /\ template = [shape |-> ShapeOne, paras |-> <<in.paragraph>>,
                         rels |-> Rels]
          /\ document = template
          /\ local = [NoLocal EXCEPT !.adjusted_text = in.new_text]
    /\ cur = 1
    /\ requirements = <<>>
    /\ frames = <<>>
    /\ total_sections = 0
    /\ current_section = 0
    /\ llm = [client |-> None, attempts |-> 0, pending |-> 0]
    /\ response = None
    /\ calls = <<>>
    /\ status = <<"none">>
    /\ returned = <<None>>
    /\ saved = <<>>
    /\ exit_code = None

\* one call _update_paragraph_text(paragraph, new_text)
UpdateAlone ==
    /\ pc = "unit"
    /\ LET r == UpdateParagraphText(document.paras[cur], local.adjusted_text,
                                    document.rels)
       IN  /\ document' = [document EXCEPT !.paras[cur] = r.para]
           /\ pc' = IF r.raised THEN "unit_raised" ELSE "unit_done"
    /\ UNCHANGED <<template, requirements, frames, total_sections,
                   current_section, cur, local, llm, response, calls, status, returned,
                   saved, exit_code>>

NextUpdate == UpdateAlone

SpecUpdate == InitUpdate /\ [][NextUpdate]_vars

----------------------------------------------------------------------------
(* Vocabulary of the properties, stated on the template as loaded *)

\* empty or whitespace-only
IsBlank(t) == \A i \in 1..Len(t) : t[i] \in Whitespace

Loaded == template # NoDoc

ParagraphIds == 1..template.shape.nparas

\* the paragraphs that are sections: not blank in the template
Sections == {p \in ParagraphIds : ~IsBlank(ParagraphText(template.paras[p]))}

\* process_document has been entered and _count_sections has returned
InPass ==
    pc \in {"walk", "optimize", "clean", "update", "reapply", "except", "save"}
    \/ (pc = "exit" /\ Loaded)

\* control has left process_document
PassOver == pc = "save" \/ (pc = "exit" /\ Loaded)

RECURSIVE SectionsAmong(_)
\* the sections among a list of paragraphs, in the order of the list
SectionsAmong(ps) ==
    IF ps = <<>> THEN <<>>
    ELSE (IF Head(ps) \in Sections THEN <<Head(ps)>> ELSE <<>>)
         \o SectionsAmong(Tail(ps))

RECURSIVE OrderInTables(_)
RECURSIVE OrderInCells(_)
RECURSIVE OrderInRows(_)

\* a cell's own paragraphs, then its nested tables depth-first, then the
\* cells after it
OrderInCells(cs) ==
    IF cs = <<>> THEN <<>>
    ELSE SectionsAmong(template.shape.cells[Head(cs)].paragraphs)
         \o OrderInTables(template.shape.cells[Head(cs)].tables)
         \o OrderInCells(Tail(cs))

OrderInRows(rs) ==
    IF rs = <<>> THEN <<>> ELSE OrderInCells(Head(rs)) \o OrderInRows(Tail(rs))

OrderInTables(ts) ==
    IF ts = <<>> THEN <<>>
    ELSE OrderInRows(template.shape.rows[Head(ts)]) \o OrderInTables(Tail(ts))

\* the traversal order of section 4.4
TraversalOrder ==
    SectionsAmong(template.shape.paragraphs) \o OrderInTables(template.shape.tables)

IsPrefix(a, b) == Len(a) <= Len(b) /\ SubSeq(b, 1, Len(a)) = a

Occurrences(seq, x) == Cardinality({i \in 1..Len(seq) : seq[i] = x})

HasStaleLink(p) ==
    \E i \in 1..Len(p.runs) :
        p.runs[i].hyperlink # None /\ p.runs[i].hyperlink \notin template.rels

----------------------------------------------------------------------------
(* C1 *)

\* C1: the value _count_sections returned before the pass equals the number
\* of optimize_section calls process_document has made when it returns, and
\* is never exceeded during the pass, whichever sections succeeded or failed.
C1_CountEqualsCalls ==
    /\ InPass => Len(calls) <= total_sections
    /\ PassOver => Len(calls) = total_sections

\* a finished pass over the nested-table document, all four paragraphs
\* sections, with a failed and a rewritten section among them
C1_Witness ==
    /\ PassOver
    /\ template.shape = ShapeNested
    /\ total_sections = 4
    /\ \E p, q \in ParagraphIds :
          status[p] = "generation_failed" /\ status[q] = "ok"

----------------------------------------------------------------------------
(* C2 *)

\* C2: after _update_paragraph_text(paragraph, new_text) has returned, the
\* texts of the paragraph's runs, concatenated in order, are new_text; also
\* when the original runs are all empty or there are none.
C2_ContentPreserved ==
    pc = "unit_done" => ParagraphText(document.paras[1]) = local.adjusted_text

----------------------------------------------------------------------------
(* C3 *)

----------------------------------------------------------------------------
(* C4 *)

\* C4: every section whose processing ended in the except clause, whether
\* the generator or the rebuilding of the paragraph raised, has its original
\* paragraph: the same runs with the same text.
C4_ErrorLeavesOriginal ==
    \A p \in ParagraphIds :
        status[p] \in {"generation_failed", "rewrite_failed"}
            => document.paras[p] = template.paras[p]

----------------------------------------------------------------------------
(* C5 *)

\* C5: a paragraph with a run whose captured relationship id does not
\* resolve is still rebuilt in full once its new text is there: the rewrite
\* is not aborted and the paragraph holds all of the new text.
C5_StaleLinkSkipped ==
    \A p \in ParagraphIds :
        (HasStaleLink(template.paras[p]) /\ status[p] # "none"
            /\ returned[p] # None)
            => /\ status[p] # "rewrite_failed"
               /\ ParagraphText(document.paras[p]) = returned[p]

----------------------------------------------------------------------------
(* C6 *)

\* C6: a paragraph that is empty or whitespace-only, at the top level or in
\* a cell at any depth, is not counted by _count_sections, is never handed
\* to optimize_section and keeps its runs.
C6_BlankUntouched ==
    /\ InPass => total_sections = Cardinality(Sections)
    /\ \A p \in ParagraphIds \ Sections :
          /\ Occurrences(calls, p) = 0
          /\ returned[p] = None
          /\ status[p] = "none"
          /\ document.paras[p] = template.paras[p]

\* a finished pass over the nested-table document whose top-level paragraph
\* has no runs and whose nested-table paragraph is one space, the other two
\* paragraphs having been rewritten
C6_Witness ==
    /\ PassOver
    /\ template.shape = ShapeNested
    /\ template.paras[1] = ParaEmpty
    /\ template.paras[3] = ParaSpace
    /\ status[2] = "ok" /\ status[4] = "ok"

----------------------------------------------------------------------------
(* C7 *)

\* C7: the optimize_section calls follow the traversal order (top-level
\* paragraphs, then each table row by row, cell by cell, a cell's paragraphs
\* before its nested tables, those before the next cell): at every moment
\* the calls made are a prefix of it, and at the end they are all of it, each
\* section once.
C7_TraversalOrder ==
    /\ InPass => IsPrefix(calls, TraversalOrder)
    /\ PassOver =>
          /\ calls = TraversalOrder
          /\ \A p \in Sections : Occurrences(calls, p) = 1

\* a finished pass over the nested-table document with all four paragraphs
\* visited: the nested one (3) after the cell's own (2), before the next cell (4)
C7_Witness ==
    /\ PassOver
    /\ template.shape = ShapeNested
    /\ calls = <<1, 2, 3, 4>>

----------------------------------------------------------------------------
(* C8 *)

\* C8: at most one request is in flight, and every section before the one
\* being processed is finished: recorded as failed, or rewritten with its
\* runs rebuilt from the returned text and its style and paragraph format as
\* in the template.
C8_Sequential ==
    /\ llm.pending <= 1
    /\ \A i \in 1..(Len(calls) - 1) :
          LET p == calls[i]
          IN  /\ status[p] \in {"ok", "generation_failed", "rewrite_failed"}
              /\ status[p] = "ok" =>
                    /\ ParagraphText(document.paras[p]) = returned[p]
                    /\ document.paras[p].style = template.paras[p].style
                    /\ document.paras[p].paragraph_format =
                           template.paras[p].paragraph_format

\* the request for the third section is in flight, the first section having
\* been rewritten and the second recorded as failed
C8_Witness ==
    /\ pc = "optimize"
    /\ llm.pending = 1
    /\ Len(calls) = 3
    /\ status[calls[1]] = "ok"
    /\ status[calls[2]] = "generation_failed"

----------------------------------------------------------------------------
(* C9 *)

\* C9 as claimed: the process ends with code 1, no section sent and nothing
\* saved when setup failed; and when setup succeeded, with the pass run to
\* its end, the document saved once as ATS_Resume.docx and code 0.
C9_SetupSuccessExitsZero ==
    pc = "exit" =>
        IF ~Loaded
        THEN exit_code = 1 /\ calls = <<>> /\ saved = <<>>
        ELSE /\ frames = <<>>
             /\ \A p \in Sections : status[p] # "none"
             /\ saved = <<"ATS_Resume.docx">>
             /\ exit_code = 0

\* C9 as amended: as claimed, except that after the pass the document is
\* either saved once as ATS_Resume.docx with code 0, or, document.save
\* having raised, not saved with code 1; nothing is saved and no code is set
\* before the process ends, and no section is sent before the template is
\* loaded.
C9_ExitCodes ==
    /\ pc # "exit" => saved = <<>> /\ exit_code = None
    /\ ~Loaded => calls = <<>>
    /\ pc = "exit" =>
          IF ~Loaded
          THEN exit_code = 1 /\ calls = <<>> /\ saved = <<>>
          ELSE /\ frames = <<>>
               /\ \A p \in Sections : status[p] # "none"
               /\ \/ saved = <<"ATS_Resume.docx">> /\ exit_code = 0
                  \/ saved = <<>> /\ exit_code = 1

\* the process has ended with code 0 and the file saved although every one
\* of at least two sections failed
C9_Witness ==
    /\ pc = "exit" /\ Loaded
    /\ exit_code = 0
    /\ saved = <<"ATS_Resume.docx">>
    /\ Cardinality(Sections) >= 2
    /\ \A p \in Sections : status[p] \in {"generation_failed", "rewrite_failed"}

----------------------------------------------------------------------------
(* C10 *)

\* C10: a section for which the backend answered with an empty or
\* whitespace-only text is not rewritten: once _update_paragraph_text is
\* behind it, its paragraph is the original one.
C10_BlankAnswerKeepsOriginal ==
    (pc = "reapply" /\ IsBlank(response))
        => document.paras[cur] = template.paras[cur]

----------------------------------------------------------------------------
(* C11 *)

\* the lengths of the runs of a paragraph, in order
RunLengths(p) == [i \in 1..Len(p.runs) |-> Len(p.runs[i].text)]

\* C11: the characters left after the proportional pass join the last
\* produced run, so a rewritten paragraph never has more runs than it had
\* before; the runs "Hello " and "World" rewritten with a text of 15
\* characters become exactly two runs of lengths 8 and 7 that spell the text.
C11_RemainderJoinsLastRun ==
    pc = "unit_done" =>
        /\ Len(document.paras[1].runs) <= Len(template.paras[1].runs)
        /\ (template.paras[1] = HelloWorld /\ local.adjusted_text = FifteenChars)
              => /\ RunLengths(document.paras[1]) = <<8, 7>>
                 /\ ParagraphText(document.paras[1]) = FifteenChars

----------------------------------------------------------------------------
(* C12 *)

\* the seven style attributes captured from a run (lines 187-193)
StyleOf(r) ==
    [style |-> r.style, bold |-> r.bold, italic |-> r.italic,
     underline |-> r.underline, font_name |-> r.font_name,
     font_size |-> r.font_size, font_color |-> r.font_color]

\* the call _update_paragraph_text is over, by return or by exception
UnitOver == pc \in {"unit_done", "unit_raised"}

\* C12: after a paragraph is rewritten every new run carries exactly the
\* seven style attributes of one original run, the new runs follow the order
\* of the original runs they take their styles from, and so when every
\* original run was bold with font size 12 every new run is, the run that
\* holds the remainder included.
C12_StylesPreserved ==
    UnitOver =>
        LET old == template.paras[1].runs
            new == document.paras[1].runs
        IN  /\ \E f \in [1..Len(new) -> 1..Len(old)] :
                  /\ \A j \in 1..Len(new) : StyleOf(new[j]) = StyleOf(old[f[j]])
                  /\ \A j, k \in 1..Len(new) : j < k => f[j] <= f[k]
            /\ (\A i \in 1..Len(old) : old[i].bold = "True" /\ old[i].font_size = "Pt(12)")
                  => \A j \in 1..Len(new) :
                        new[j].bold = "True" /\ new[j].font_size = "Pt(12)"

\* two runs of different styles became three: one for each slice and one for
\* the remainder, styled as the last original run
C12_Witness ==
    /\ pc = "unit_done"
    /\ Len(template.paras[1].runs) = 2
    /\ StyleOf(template.paras[1].runs[1]) # StyleOf(template.paras[1].runs[2])
    /\ Len(document.paras[1].runs) = 3
    /\ StyleOf(document.paras[1].runs[1]) = StyleOf(template.paras[1].runs[1])
    /\ StyleOf(document.paras[1].runs[3]) = StyleOf(template.paras[1].runs[2])

----------------------------------------------------------------------------
(* C13 *)

\* the total length of the original runs of the paragraph of the call
OrigTextLength == Len(ParagraphText(template.paras[1]))

\* the slice length computed for original run i (line 225)
SliceLength(i) ==
    NewRunLength(Len(template.paras[1].runs[i].text), OrigTextLength,
                 Len(local.adjusted_text))

\* the read cursor after the slices of the original runs 1..i
RECURSIVE CursorAfter(_)
CursorAfter(i) == IF i = 0 THEN 0 ELSE CursorAfter(i - 1) + SliceLength(i)

\* where the run created for the slice of original run i stands among the
\* new runs: empty slices create no run
RunIndexOf(i) == Cardinality({k \in 1..i : SliceLength(k) > 0})

\* C13: every original run that carried a hyperlink relationship id and whose
\* slice of the new text is non-empty has its new run carry the same id after
\* the rewrite, and no run created from an original run without an id carries
\* one.
C13_HyperlinksPreserved ==
    (UnitOver /\ OrigTextLength > 0) =>
        LET old == template.paras[1].runs
            new == document.paras[1].runs
        IN  \A i \in 1..Len(old) :
                SliceLength(i) > 0 =>
                    IF old[i].hyperlink # None
                    THEN /\ RunIndexOf(i) <= Len(new)
                         /\ new[RunIndexOf(i)].hyperlink = old[i].hyperlink
                    ELSE RunIndexOf(i) <= Len(new)
                            => new[RunIndexOf(i)].hyperlink = None

----------------------------------------------------------------------------
(* C14 *)

\* C14: after _update_paragraph_text every run of the paragraph has a
\* non-empty text (an original run whose slice length is zero yields no run),
\* and an empty new text leaves the paragraph with zero runs while the
\* paragraph itself, with its properties, stays in the document.
C14_NoEmptyRuns ==
    UnitOver =>
        LET new == document.paras[1].runs
        IN  /\ \A j \in 1..Len(new) : new[j].text # <<>>
            /\ local.adjusted_text = <<>> => new = <<>>
            /\ Len(document.paras) = 1
            /\ document.paras[1].style = template.paras[1].style
            /\ document.paras[1].paragraph_format
                  = template.paras[1].paragraph_format

\* a non-empty original run got a slice of length zero and made no run, while
\* the rest of the new text did make runs
C14_Witness ==
    /\ pc = "unit_done"
    /\ OrigTextLength > 0
    /\ \E i \in 1..Len(template.paras[1].runs) :
          template.paras[1].runs[i].text # <<>> /\ SliceLength(i) = 0
    /\ local.adjusted_text # <<>>
    /\ Len(document.paras[1].runs) <= Len(template.paras[1].runs)
    /\ document.paras[1].runs # <<>>

----------------------------------------------------------------------------
(* C15 *)

\* C15: rewriting a section leaves the paragraph-level properties as they
\* were: the style, the alignment, the three indentations, the spacing before
\* and after, the line spacing and its rule and the four pagination flags of a
\* rewritten paragraph equal their values before the rewrite (unset ones stay
\* unset), whatever the replacement text.
C15_ParagraphPropertiesKept ==
    \A p \in 1..Len(status) :
        status[p] = "ok" =>
            LET before == template.paras[p]
                after == document.paras[p]
            IN  /\ after.style = before.style
                /\ \A field \in {"alignment", "left_indent", "right_indent",
                                 "first_line_indent", "space_before",
                                 "space_after", "line_spacing",
                                 "line_spacing_rule", "keep_together",
                                 "keep_with_next", "page_break_before",
                                 "widow_control"} :
                       after.paragraph_format[field]
                           = before.paragraph_format[field]

\* a paragraph with a style and some of the properties set and others unset
\* was rewritten with another text
C15_Witness ==
    \E p \in 1..Len(status) :
        /\ status[p] = "ok"
        /\ template.paras[p].style = "Heading 1"
        /\ template.paras[p].paragraph_format = FormatSet
        /\ ParagraphText(document.paras[p]) # ParagraphText(template.paras[p])
        /\ document.paras[p].paragraph_format = FormatSet

----------------------------------------------------------------------------
(* C16 *)

\* a call of LMStudioClient.generate is under way
InGenerate == pc \in {"extract", "optimize"} /\ llm.client = "lmstudio"

\* C16: one call of LMStudioClient.generate issues at most 3 requests to the
\* backend; it returns with the first attempt that succeeds and issues no
\* request after it, and it fails with an error exactly when its third attempt
\* in a row has failed. llm.attempts counts the requests of the call under
\* way, llm.pending the request in flight.
C16_AtMostThreeRequests ==
    [][ InGenerate =>
          LET returns == pc' \in {"parse", "clean"}
              fails == pc' \in {"except", "exit"}
              attempt_fails == llm.pending = 1 /\ llm'.pending = 0 /\ ~returns
          IN  /\ llm'.attempts <= 3
              /\ llm'.attempts > llm.attempts
                    => llm.pending = 0 /\ llm'.attempts = llm.attempts + 1
              /\ returns => /\ llm.pending = 1
                            /\ llm'.attempts = 0 /\ llm'.pending = 0
              /\ fails <=> (attempt_fails /\ llm.attempts = 3)
              /\ (attempt_fails /\ llm.attempts < 3) => (pc' = pc /\ InGenerate')
      ]_vars

\* two attempts of a call have failed and its third request is in flight
C16_Witness ==
    /\ pc = "optimize"
    /\ llm.client = "lmstudio"
    /\ llm.attempts = 3
    /\ llm.pending = 1

----------------------------------------------------------------------------
(* C17 *)

\* C17: for every section the text optimize_section returns, which is the
\* text then written into the paragraph, is at most 120% as long as the
\* section's stripped original text; a cleaned answer longer than 120% of the
\* input is cut to exactly the first len(input) characters, and any other is
\* passed through unchanged.
C17_LengthBound ==
    /\ \A p \in 1..Len(returned) :
          returned[p] # None =>
              /\ 10 * Len(returned[p])
                    <= 12 * Len(Strip(ParagraphText(template.paras[p])))
              /\ status[p] = "ok"
                    => ParagraphText(document.paras[p]) = returned[p]
    /\ pc = "update" =>
          LET cleaned == CleanResponse(response)
              input == local.original_text
          IN  /\ local.adjusted_text = returned[cur]
              /\ returned[cur] =
                    IF 10 * Len(cleaned) > 12 * Len(input)
                    THEN SubSeq(cleaned, 1, Len(input))
                    ELSE cleaned

\* a cleaned answer of 3 characters for a section of 2 came back cut to 2
C17_Witness ==
    /\ pc = "update"
    /\ Len(local.original_text) = 2
    /\ Len(CleanResponse(response)) = 3
    /\ Len(returned[cur]) = 2
    /\ returned[cur] # local.original_text

----------------------------------------------------------------------------
(* C18 *)

\* C18: in _update_paragraph_text with a non-empty original text the read
\* cursor pos never exceeds len(new_text) at any step of the proportional loop
\* (the floor-allocated slice lengths sum to at most len(new_text)), every
\* produced slice has exactly its computed length, and once the remainder step
\* has run the characters of all runs together are exactly new_text: none
\* lost, duplicated or out of order.
C18_CursorAndSlices ==
    (UnitOver /\ OrigTextLength > 0) =>
        LET old == template.paras[1].runs
            new == document.paras[1].runs
            new_text == local.adjusted_text
        IN  /\ \A i \in 0..Len(old) : CursorAfter(i) <= Len(new_text)
            /\ \A i \in 1..Len(old) :
                  (SliceLength(i) > 0 /\ RunIndexOf(i) <= Len(new)) =>
                      /\ Len(new[RunIndexOf(i)].text) = SliceLength(i)
                      /\ new[RunIndexOf(i)].text
                            = SubSeq(new_text, CursorAfter(i - 1) + 1, CursorAfter(i))
            /\ pc = "unit_done" => ParagraphText(document.paras[1]) = new_text

\* both original runs got a non-empty slice and a remainder was left over
C18_Witness ==
    /\ pc = "unit_done"
    /\ Len(template.paras[1].runs) = 2
    /\ OrigTextLength > 0
    /\ SliceLength(1) > 0
    /\ SliceLength(2) > 0
    /\ CursorAfter(2) < Len(local.adjusted_text)
    /\ ParagraphText(document.paras[1]) = local.adjusted_text

====
